---- MODULE Spec2Model ----
(***************************************************************************)
(* Text-to-speech player: the two App components (the full transport with  *)
(* play/pause/seek/speed/volume/preview, and the simple generate-and-play  *)
(* one), their Web Audio graph and the React closures their handlers run   *)
(* with.                                                                   *)
(*                                                                         *)
(* Units.  Positions in the buffer (startOffsetRef, currentTime, duration, *)
(* a node's position) are counted in steps of 0.01 s, the step of the seek *)
(* slider.  The audio clock is counted in ticks of 0.1 s, TickLen steps.   *)
(* A playback rate is a whole multiple of 1.0x (the slider's 1 and 2).     *)
(* Volume is counted in halves (0, 0.5, 1.0).                              *)
(*                                                                         *)
(* React.  A handler sees the state of the render it was created in: each  *)
(* action below reads the unprimed state, and the values a callback keeps  *)
(* beyond the handler run (the play() kept by a pending request, the       *)
(* updateProgress kept by a scheduled frame, the onended kept by a node)   *)
(* are stored with it as a closure record.                                 *)
(***************************************************************************)
EXTENDS Integers, FiniteSets, Sequences, TLC

VARIABLES
    variant,                \* which App component is mounted: "full" | "simple"
    mounted,
    text, selectedVoice, isLoading, isPreviewLoading, audioBuffer, error,
    isPlaying, currentTime, duration, volume, lastVolume, playbackRate,
    audioContextRef, gainNodeRef, gain,
    audioSourceRef, previewAudioSourceRef,
    animationFrameRef, playbackStartTimeRef, startOffsetRef,
    clock,                  \* audioContextRef.current.currentTime
    sources,                \* the AudioBufferSourceNodes that still matter
    rafCallbacks,           \* callbacks scheduled with requestAnimationFrame
    requests,               \* generateSpeech calls awaiting their result
    segment,                \* history: startOffsetRef and clock when play() last started a node
    last,                   \* history: the handler that ran last
    codec                   \* the PCM bytes, the buffer and the file of the codec functions

vars == <<variant, mounted, text, selectedVoice, isLoading, isPreviewLoading,
          audioBuffer, error, isPlaying, currentTime, duration, volume,
          lastVolume, playbackRate, audioContextRef, gainNodeRef, gain,
          audioSourceRef, previewAudioSourceRef, animationFrameRef,
          playbackStartTimeRef, startOffsetRef, clock, sources, rafCallbacks,
          requests, segment, last, codec>>

\* The variables of the page.
pageVars == <<variant, mounted, text, selectedVoice, isLoading, isPreviewLoading,
              audioBuffer, error, isPlaying, currentTime, duration, volume,
              lastVolume, playbackRate, audioContextRef, gainNodeRef, gain,
              audioSourceRef, previewAudioSourceRef, animationFrameRef,
              playbackStartTimeRef, startOffsetRef, clock, sources,
              rafCallbacks, requests, segment, last>>

reactState == <<text, selectedVoice, isLoading, isPreviewLoading, audioBuffer,
                error, isPlaying, currentTime, duration, volume, lastVolume,
                playbackRate>>

----------------------------------------------------------------------------
(* Bounds *)

\* User gestures are taken while the audio clock is below this many ticks.
MaxClock == 2

\* The longest buffer the remote call returns, in clock ticks at 1.0x.
MaxTicks == 3

----------------------------------------------------------------------------
(* Program constants *)

TickLen == 10                   \* position steps in one tick of the audio clock
Epsilon == 1                    \* the 0.01 of `audioBuffer.duration - 0.01`
DefaultRate == 1                \* useState<number>(1): 1.0x
DefaultVolume == 2              \* useState<number>(1): full volume
NodeRate == 1                   \* playbackRate of a node nobody set: 1.0x
NoSource == 0                   \* a source ref holding null
NoFrame == 0                    \* animationFrameRef holding null
NodeGain == 2                   \* gain of a freshly created GainNode: 1.0

Rates == {1, 2}
Volumes == {0, 1, 2}
VOICES == {"Kore", "Puck"}
Durations == {TickLen * k : k \in 1..MaxTicks}

\* The positions the seek slider is dragged to: the start, one tick in,
\* and the end (its max).
SeekTargets(d) == {t \in {0, TickLen, d} : 0 <= t /\ t <= d}

\* now - start, two readings of the audio clock, in position steps.
Elapsed(now, start) == (now - start) * TickLen

\* Texts the user may type: nothing, and a text with a space to trim.
Texts == {<< >>, <<" ", "a">>}

RECURSIVE TrimStart(_)
TrimStart(s) ==
    IF s # << >> /\ Head(s) = " " THEN TrimStart(Tail(s)) ELSE s

RECURSIVE TrimEnd(_)
TrimEnd(s) ==
    IF s # << >> /\ s[Len(s)] = " " THEN TrimEnd(SubSeq(s, 1, Len(s) - 1)) ELSE s

\* String.prototype.trim
trim(s) == TrimEnd(TrimStart(s))

NoBuffer == [text |-> << >>, voice |-> "null", duration |-> 0]

NoHandler == [armed |-> FALSE, playbackRate |-> 0]

NoSegment == [offset |-> 0, start |-> 0, fromIdle |-> FALSE]

EmptyMap == [i \in {} |-> 0]

----------------------------------------------------------------------------
(* The audio graph *)

\* A node is worth keeping while it sounds, while a ref holds it, or while
\* an ended event for it still has a handler to run.
Reachable(srcs, main, preview) ==
    LET keep == {i \in DOMAIN srcs :
                    \/ srcs[i].state = "playing"
                    \/ i \in {main, preview}
                    \/ srcs[i].state = "stopped" /\ srcs[i].onended.armed}
    IN [i \in keep |-> srcs[i]]

\* A name for a new node: main nodes take the odd numbers, preview nodes
\* the even ones, each the first that no kept node bears.
FreshId(used, first) ==
    LET ids == {first + 2 * k : k \in 0..Cardinality(used)}
    IN CHOOSE i \in ids : i \notin used /\ \A j \in ids : j < i => j \in used

\* AudioBufferSourceNode.stop(), with `onended = null` before it when detach.
StopNode(srcs, id, detach) ==
    IF id \notin DOMAIN srcs THEN srcs
    ELSE [srcs EXCEPT ![id] =
            [@ EXCEPT !.state = IF @ = "playing" THEN "stopped" ELSE @,
                      !.onended = IF detach THEN NoHandler ELSE @]]

cancelAnimationFrame(cbs, id) ==
    [i \in DOMAIN cbs \ {id} |-> cbs[i]]

\* The id requestAnimationFrame returns: one that no pending callback has.
\* (Every caller stores it in animationFrameRef at once, so an id the ref
\* held for a callback that ran or was cancelled can be given again.)
NextFrameId(cbs) ==
    CHOOSE i \in 1..(Cardinality(DOMAIN cbs) + 1) :
        i \notin DOMAIN cbs /\ \A j \in 1..(i - 1) : j \in DOMAIN cbs

Playing(kind) ==
    {i \in DOMAIN sources : sources[i].kind = kind /\ sources[i].state = "playing"}

----------------------------------------------------------------------------
(* History *)

MainAdvance ==
    IF audioSourceRef \in DOMAIN sources
    THEN sources[audioSourceRef].pos - sources[audioSourceRef].offset
    ELSE 0

\* Left by the handlers no property needs to tell apart.
Other ==
    [op |-> "other", t |-> 0, wasPlaying |-> FALSE, polling |-> FALSE,
     after |-> "other"]

\* What a transport handler leaves in `last`: its name, its argument,
\* whether the transport was playing and a frame callback was scheduled
\* when it started, and (for play) the handler that ran before it.
Did(op, t) ==
    [op |-> op, t |-> t, wasPlaying |-> isPlaying,
     polling |-> (DOMAIN rafCallbacks # {}),
     after |-> IF op = "play" THEN last.op ELSE "other"]

\* Left by a step of the browser that a property looks at.
Mark(op) == [Other EXCEPT !.op = op]

\* The segment lasts while the transport plays.
SegmentAfter(playing) == IF playing THEN segment ELSE NoSegment

----------------------------------------------------------------------------
(* Closures *)

\* updateProgress as created by the current render: useCallback over
\* [isPlaying, playbackRate].
updateProgressNow == [isPlaying |-> isPlaying, playbackRate |-> playbackRate]

\* play as created by the current render: useCallback over
\* [audioBuffer, stopPlayback, updateProgress, playbackRate].
playNow ==
    [audioBuffer |-> audioBuffer, playbackRate |-> playbackRate,
     updateProgress |-> updateProgressNow]

\* Held by a pending call that never calls play().
NoPlay ==
    [audioBuffer |-> NoBuffer, playbackRate |-> DefaultRate,
     updateProgress |-> [isPlaying |-> FALSE, playbackRate |-> DefaultRate]]

----------------------------------------------------------------------------
(* Helpers of the full transport.  Each gives the values the variables it  *)
(* touches have once it returns.                                           *)

stopPlayback_keepsMain(sourceNode) ==
    LET stopPrev == sourceNode \in {"preview", "undefined"}
        s2 == IF stopPrev THEN StopNode(sources, previewAudioSourceRef, FALSE) ELSE sources
        prev == IF stopPrev THEN NoSource ELSE previewAudioSourceRef
    IN [sources |-> Reachable(s2, audioSourceRef, prev),
        audioSourceRef |-> audioSourceRef,
        previewAudioSourceRef |-> prev,
        isPlaying |-> FALSE,
        rafCallbacks |-> cancelAnimationFrame(rafCallbacks, animationFrameRef)]

stopPlayback_keepsHandler(sourceNode) ==
    LET stopMain == sourceNode \in {"main", "undefined"}
        stopPrev == sourceNode \in {"preview", "undefined"}
        s1 == IF stopMain THEN StopNode(sources, audioSourceRef, FALSE) ELSE sources
        s2 == IF stopPrev THEN StopNode(s1, previewAudioSourceRef, FALSE) ELSE s1
        main == IF stopMain THEN NoSource ELSE audioSourceRef
        prev == IF stopPrev THEN NoSource ELSE previewAudioSourceRef
    IN [sources |-> Reachable(s2, main, prev),
        audioSourceRef |-> main,
        previewAudioSourceRef |-> prev,
        isPlaying |-> FALSE,
        rafCallbacks |-> cancelAnimationFrame(rafCallbacks, animationFrameRef)]

stopPlayback_keepsFrame(sourceNode) ==
    LET stopMain == sourceNode \in {"main", "undefined"}
        stopPrev == sourceNode \in {"preview", "undefined"}
        s1 == IF stopMain THEN StopNode(sources, audioSourceRef, TRUE) ELSE sources
        s2 == IF stopPrev THEN StopNode(s1, previewAudioSourceRef, FALSE) ELSE s1
        main == IF stopMain THEN NoSource ELSE audioSourceRef
        prev == IF stopPrev THEN NoSource ELSE previewAudioSourceRef
    IN [sources |-> Reachable(s2, main, prev),
        audioSourceRef |-> main,
        previewAudioSourceRef |-> prev,
        isPlaying |-> FALSE,
        rafCallbacks |-> rafCallbacks]

stopPlayback(sourceNode) ==
    LET stopMain == sourceNode \in {"main", "undefined"}
        stopPrev == sourceNode \in {"preview", "undefined"}
        s1 == IF stopMain THEN StopNode(sources, audioSourceRef, TRUE) ELSE sources
        s2 == IF stopPrev THEN StopNode(s1, previewAudioSourceRef, FALSE) ELSE s1
        main == IF stopMain THEN NoSource ELSE audioSourceRef
        prev == IF stopPrev THEN NoSource ELSE previewAudioSourceRef
    IN [sources |-> Reachable(s2, main, prev),
        audioSourceRef |-> main,
        previewAudioSourceRef |-> prev,
        isPlaying |-> FALSE,
        rafCallbacks |-> cancelAnimationFrame(rafCallbacks, animationFrameRef)]

StartOffset_noRestart(offsetRef, buffer) == offsetRef

\* The offset play() hands to source.start(0, offset).
StartOffset(offsetRef, buffer) ==
    IF offsetRef >= buffer.duration THEN 0 ELSE offsetRef

\* play() of the render that made closure `p`, run while startOffsetRef
\* holds `offsetRef`.
play(p, offsetRef) ==
    IF p.audioBuffer = NoBuffer \/ audioContextRef = "null" \/ gainNodeRef = "null"
    THEN [sources |-> sources,
          audioSourceRef |-> audioSourceRef,
          isPlaying |-> isPlaying,
          rafCallbacks |-> rafCallbacks,
          animationFrameRef |-> animationFrameRef,
          playbackStartTimeRef |-> playbackStartTimeRef,
          segment |-> segment]
    ELSE LET s == stopPlayback("main")
             id == FreshId(DOMAIN s.sources, 1)
             offset == StartOffset(offsetRef, p.audioBuffer)
             node == [kind |-> "main", buffer |-> p.audioBuffer,
                      offset |-> offset, pos |-> offset,
                      rate |-> p.playbackRate, state |-> "playing",
                      onended |-> [armed |-> TRUE, playbackRate |-> p.playbackRate]]
             frame == NextFrameId(s.rafCallbacks)
         IN [sources |-> [i \in DOMAIN s.sources \cup {id} |->
                            IF i = id THEN node ELSE s.sources[i]],
             audioSourceRef |-> id,
             isPlaying |-> TRUE,
             rafCallbacks |-> [i \in DOMAIN s.rafCallbacks \cup {frame} |->
                                IF i = frame THEN p.updateProgress ELSE s.rafCallbacks[i]],
             animationFrameRef |-> frame,
             playbackStartTimeRef |-> clock,
             segment |-> [offset |-> offsetRef, start |-> clock,
                         fromIdle |-> ~isPlaying]]

----------------------------------------------------------------------------
(* Initial state: the component is mounted, nothing was generated yet.     *)

PageInit ==
    /\ variant \in {"full", "simple"}
    /\ mounted = TRUE
    /\ text \in (IF variant = "full" THEN {<< >>} ELSE {<<"a">>})
    /\ selectedVoice = "Kore"
    /\ isLoading = FALSE
    /\ isPreviewLoading = FALSE
    /\ audioBuffer = NoBuffer
    /\ error = "null"
    /\ isPlaying = FALSE
    /\ currentTime = 0
    /\ duration = 0
    /\ volume = DefaultVolume
    /\ lastVolume = DefaultVolume
    /\ playbackRate = DefaultRate
    /\ audioContextRef = "null"
    /\ gainNodeRef = "null"
    /\ gain = NodeGain
    /\ audioSourceRef = NoSource
    /\ previewAudioSourceRef = NoSource
    /\ animationFrameRef = NoFrame
    /\ playbackStartTimeRef = 0
    /\ startOffsetRef = 0
    /\ clock = 0
    /\ sources = EmptyMap
    /\ rafCallbacks = EmptyMap
    /\ requests = {}
    /\ segment = NoSegment
    /\ last = Other


----------------------------------------------------------------------------
(* What the rendered page lets the user do.                                *)

IsFull == variant = "full"

\* A gesture needs a mounted page; the model stops taking gestures once
\* the audio clock has reached MaxClock.
UserTurn == mounted /\ clock < MaxClock

InputsEnabled_always == TRUE

\* textarea and select: disabled={isLoading || isPreviewLoading}, or
\* disabled={isLoading} in the simple page.
InputsEnabled == ~isLoading /\ ~isPreviewLoading

GenerateEnabled_whileLoading ==
    /\ trim(text) # << >>
    /\ IsFull => audioBuffer = NoBuffer

\* The generate button: rendered instead of the player while there is no
\* buffer (full page), disabled while loading or while the text is blank.
GenerateEnabled ==
    /\ ~isLoading /\ ~isPreviewLoading
    /\ trim(text) # << >>
    /\ IsFull => audioBuffer = NoBuffer

PreviewEnabled_whileLoading == IsFull

\* The preview button: disabled={isLoading || isPreviewLoading}.
PreviewEnabled == IsFull /\ ~isLoading /\ ~isPreviewLoading

\* The player (play/pause, seek, mute, volume, speed) is rendered only
\* while there is a buffer.
PlayerShown == IsFull /\ audioBuffer # NoBuffer

----------------------------------------------------------------------------
(* The effect on [text, selectedVoice].                                    *)

ResetOnInputChange_keepsBuffer ==
    LET s == stopPlayback("undefined")
    IN /\ sources' = s.sources
       /\ audioSourceRef' = s.audioSourceRef
       /\ previewAudioSourceRef' = s.previewAudioSourceRef
       /\ isPlaying' = s.isPlaying
       /\ rafCallbacks' = s.rafCallbacks
       /\ currentTime' = 0
       /\ duration' = 0
       /\ UNCHANGED audioBuffer

ResetOnInputChange_keepsTime ==
    LET s == stopPlayback("undefined")
    IN /\ sources' = s.sources
       /\ audioSourceRef' = s.audioSourceRef
       /\ previewAudioSourceRef' = s.previewAudioSourceRef
       /\ isPlaying' = s.isPlaying
       /\ rafCallbacks' = s.rafCallbacks
       /\ audioBuffer' = NoBuffer
       /\ UNCHANGED <<currentTime, duration>>

\* Full page: stopPlayback(); setAudioBuffer(null); setCurrentTime(0); setDuration(0)
ResetOnInputChange ==
    LET s == stopPlayback("undefined")
    IN /\ sources' = s.sources
       /\ audioSourceRef' = s.audioSourceRef
       /\ previewAudioSourceRef' = s.previewAudioSourceRef
       /\ isPlaying' = s.isPlaying
       /\ rafCallbacks' = s.rafCallbacks
       /\ audioBuffer' = NoBuffer
       /\ currentTime' = 0
       /\ duration' = 0

\* Simple page: setAudioBuffer(null); stop the source and drop the ref.
ResetOnInputChangeSimple ==
    /\ sources' = Reachable(StopNode(sources, audioSourceRef, FALSE), NoSource, NoSource)
    /\ audioSourceRef' = NoSource
    /\ audioBuffer' = NoBuffer
    /\ UNCHANGED <<previewAudioSourceRef, isPlaying, rafCallbacks, currentTime, duration>>

setText(t) ==
    /\ UserTurn /\ InputsEnabled /\ t # text
    /\ text' = t
    /\ IF IsFull THEN ResetOnInputChange ELSE ResetOnInputChangeSimple
    /\ last' = Other
    /\ UNCHANGED <<codec, variant, mounted, selectedVoice, isLoading, isPreviewLoading,
                   error, volume, lastVolume, playbackRate, audioContextRef,
                   gainNodeRef, gain, animationFrameRef, playbackStartTimeRef,
                   startOffsetRef, clock, requests>>
    /\ segment' = SegmentAfter(isPlaying')

setSelectedVoice(v) ==
    /\ UserTurn /\ InputsEnabled /\ v # selectedVoice
    /\ selectedVoice' = v
    /\ IF IsFull THEN ResetOnInputChange ELSE ResetOnInputChangeSimple
    /\ last' = Other
    /\ UNCHANGED <<codec, variant, mounted, text, isLoading, isPreviewLoading,
                   error, volume, lastVolume, playbackRate, audioContextRef,
                   gainNodeRef, gain, animationFrameRef, playbackStartTimeRef,
                   startOffsetRef, clock, requests>>
    /\ segment' = SegmentAfter(isPlaying')

----------------------------------------------------------------------------
(* Transport handlers of the full page.                                    *)

PausedOffset_wallClock ==
    startOffsetRef + Elapsed(clock, playbackStartTimeRef)

\* The offset pause() leaves in startOffsetRef.
PausedOffset ==
    startOffsetRef + Elapsed(clock, playbackStartTimeRef) * playbackRate

\* pause(): fold the elapsed time into startOffsetRef, stop the main source.
pause ==
    IF audioContextRef = "null" \/ audioSourceRef = NoSource
    THEN UNCHANGED <<sources, audioSourceRef, previewAudioSourceRef, isPlaying,
                     rafCallbacks, startOffsetRef>>
    ELSE LET s == stopPlayback("main")
         IN /\ startOffsetRef' = PausedOffset
            /\ sources' = s.sources
            /\ audioSourceRef' = s.audioSourceRef
            /\ previewAudioSourceRef' = s.previewAudioSourceRef
            /\ isPlaying' = s.isPlaying
            /\ rafCallbacks' = s.rafCallbacks

\* The part of a handler that is a call of play(): p is the play the
\* handler holds, offsetRef the value of startOffsetRef at the call.
CallPlay(p, offsetRef) ==
    LET r == play(p, offsetRef)
    IN /\ sources' = r.sources
       /\ audioSourceRef' = r.audioSourceRef
       /\ isPlaying' = r.isPlaying
       /\ rafCallbacks' = r.rafCallbacks
       /\ animationFrameRef' = r.animationFrameRef
       /\ playbackStartTimeRef' = r.playbackStartTimeRef
       /\ segment' = r.segment

handleTogglePlayPause ==
    /\ UserTurn /\ PlayerShown
    /\ IF isPlaying
       THEN /\ pause
            /\ last' = Did("pause", 0)
            /\ segment' = SegmentAfter(isPlaying')
            /\ UNCHANGED <<animationFrameRef, playbackStartTimeRef>>
       ELSE /\ CallPlay(playNow, startOffsetRef)
            /\ last' = Did("play", 0)
            /\ UNCHANGED <<previewAudioSourceRef, startOffsetRef>>
    /\ UNCHANGED <<codec, variant, mounted, text, selectedVoice, isLoading,
                   isPreviewLoading, audioBuffer, error, currentTime, duration,
                   volume, lastVolume, playbackRate, audioContextRef,
                   gainNodeRef, gain, clock, requests>>

handleSeek_keepsSource(newTime) ==
    /\ UserTurn /\ PlayerShown
    /\ newTime \in SeekTargets(duration)
    /\ currentTime' = newTime
    /\ startOffsetRef' = newTime
    /\ last' = Did("seek", newTime)
    /\ UNCHANGED <<codec, variant, mounted, text, selectedVoice, isLoading,
                   isPreviewLoading, audioBuffer, error, duration, volume,
                   lastVolume, playbackRate, audioContextRef, gainNodeRef, gain,
                   previewAudioSourceRef, clock, requests, sources,
                   audioSourceRef, isPlaying, rafCallbacks, animationFrameRef,
                   playbackStartTimeRef, segment>>

\* The seek slider: min 0, max {duration}, step 0.01.
handleSeek(newTime) ==
    /\ UserTurn /\ PlayerShown
    /\ newTime \in SeekTargets(duration)
    /\ currentTime' = newTime
    /\ startOffsetRef' = newTime
    /\ IF isPlaying
       THEN CallPlay(playNow, newTime)
       ELSE UNCHANGED <<sources, audioSourceRef, isPlaying, rafCallbacks,
                        animationFrameRef, playbackStartTimeRef, segment>>
    /\ last' = Did("seek", newTime)
    /\ UNCHANGED <<codec, variant, mounted, text, selectedVoice, isLoading,
                   isPreviewLoading, audioBuffer, error, duration, volume,
                   lastVolume, playbackRate, audioContextRef, gainNodeRef, gain,
                   previewAudioSourceRef, clock, requests>>

\* The speed slider: min 0.5, max 2.
handleSpeedChange(newRate) ==
    /\ UserTurn /\ PlayerShown
    /\ newRate \in Rates /\ newRate # playbackRate
    /\ playbackRate' = newRate
    /\ sources' = IF audioSourceRef \in DOMAIN sources /\ audioContextRef # "null"
                  THEN [sources EXCEPT ![audioSourceRef].rate = newRate]
                  ELSE sources
    /\ last' = Other
    /\ UNCHANGED <<codec, variant, mounted, text, selectedVoice, isLoading,
                   isPreviewLoading, audioBuffer, error, isPlaying, currentTime,
                   duration, volume, lastVolume, audioContextRef, gainNodeRef,
                   gain, audioSourceRef, previewAudioSourceRef,
                   animationFrameRef, playbackStartTimeRef, startOffsetRef,
                   clock, rafCallbacks, requests, segment>>

GainAfter_unapplied(v) == gain

\* The effect on [volume]: the gain follows the volume once a gain node exists.
GainAfter(v) ==
    IF gainNodeRef # "null" /\ audioContextRef # "null" THEN v ELSE gain

\* The mute button.  `last` keeps the volume a mute found, and an unmute
\* that follows it at once hands that volume on.
handleToggleMute ==
    /\ UserTurn /\ PlayerShown
    /\ IF volume > 0
       THEN /\ lastVolume' = volume
            /\ volume' = 0
       ELSE /\ volume' = (IF lastVolume > 0 THEN lastVolume ELSE DefaultVolume)
            /\ UNCHANGED lastVolume
    /\ gain' = GainAfter(volume')
    /\ last' = IF volume > 0
               THEN [Other EXCEPT !.op = "mute", !.t = volume]
               ELSE IF last.op = "mute"
                    THEN [Other EXCEPT !.op = "unmute", !.t = last.t]
                    ELSE Other
    /\ UNCHANGED <<codec, variant, mounted, text, selectedVoice, isLoading,
                   isPreviewLoading, audioBuffer, error, isPlaying, currentTime,
                   duration, playbackRate, audioContextRef, gainNodeRef,
                   audioSourceRef, previewAudioSourceRef, animationFrameRef,
                   playbackStartTimeRef, startOffsetRef, clock, sources,
                   rafCallbacks, requests, segment>>

StoredVolume_any(newVolume) == newVolume

\* setLastVolume(newVolume > 0 ? newVolume : lastVolume)
StoredVolume(newVolume) == IF newVolume > 0 THEN newVolume ELSE lastVolume

\* The volume slider: min 0, max 1.
handleVolumeChange(newVolume) ==
    /\ UserTurn /\ PlayerShown
    /\ newVolume \in Volumes /\ newVolume # volume
    /\ volume' = newVolume
    /\ lastVolume' = StoredVolume(newVolume)
    /\ gain' = GainAfter(newVolume)
    /\ last' = Other
    /\ UNCHANGED <<codec, variant, mounted, text, selectedVoice, isLoading,
                   isPreviewLoading, audioBuffer, error, isPlaying, currentTime,
                   duration, playbackRate, audioContextRef, gainNodeRef,
                   audioSourceRef, previewAudioSourceRef, animationFrameRef,
                   playbackStartTimeRef, startOffsetRef, clock, sources,
                   rafCallbacks, requests, segment>>

----------------------------------------------------------------------------
(* The remote call and the decoding of its payload.                        *)

\* What the remote service may answer: audio of some duration, audio cut
\* in the middle of a sample, text that is no base64, no audio at all, or
\* a failed call.
Failures ==
    {[kind |-> k, duration |-> 0] : k \in {"odd", "malformed", "empty", "rejected"}}

Replies == {[kind |-> "audio", duration |-> d] : d \in Durations} \cup Failures

\* The preview sentence is fixed, and so is the length of its audio; its
\* failures all end in the same catch, and a failed call stands for them.
PreviewReplies ==
    {[kind |-> "audio", duration |-> TickLen], [kind |-> "rejected", duration |-> 0]}

\* generateSpeech, decode and decodeAudioData in a row: the buffer, or the
\* message of the error thrown.
Decoded(reply, forText, forVoice) ==
    CASE reply.kind = "rejected" ->
            [ok |-> FALSE, buffer |-> NoBuffer,
             message |-> "Failed to generate speech: rejected"]
      [] reply.kind = "empty" ->
            [ok |-> FALSE, buffer |-> NoBuffer,
             message |-> "Failed to generate speech: No audio data was returned from the API."]
      [] reply.kind = "malformed" ->
            [ok |-> FALSE, buffer |-> NoBuffer, message |-> "InvalidCharacterError"]
      [] reply.kind = "odd" ->
            [ok |-> FALSE, buffer |-> NoBuffer, message |-> "RangeError"]
      [] OTHER ->
            [ok |-> TRUE,
             buffer |-> [text |-> forText, voice |-> forVoice, duration |-> reply.duration],
             message |-> "null"]

PREVIEW_TEXT == <<"p">>

\* Each call of generateSpeech is a promise of its own: a call is told
\* from the others outstanding by the first number none of them bears.
NextCall ==
    CHOOSE n \in 1..(Cardinality(requests) + 1) :
        /\ \A r \in requests : r.call # n
        /\ \A m \in 1..(n - 1) : \E r \in requests : r.call = m

\* A state setter called after an await does nothing once the component
\* is unmounted.
SetState(new, old) == IF mounted THEN new ELSE old

LoadingDone_forgotten(flag) == flag

\* finally { setIsLoading(false) } / finally { setIsPreviewLoading(false) }
LoadingDone(flag) == SetState(FALSE, flag)

setupAudioContext ==
    IF audioContextRef = "null"
    THEN /\ audioContextRef' = "running"
         /\ gainNodeRef' = "node"
         /\ gain' = NodeGain
    ELSE UNCHANGED <<audioContextRef, gainNodeRef, gain>>

----------------------------------------------------------------------------
(* Generation and preview, full page.                                      *)

IsBlank_untrimmed(t) == t = << >>

\* !text.trim()
IsBlank(t) == trim(t) = << >>

\* The code of handleGenerateAudio up to its await.
GenerateAudio ==
    /\ IF IsBlank(text)
       THEN /\ error' = "blank"
            /\ UNCHANGED <<isLoading, audioBuffer, isPlaying, audioContextRef,
                           gainNodeRef, gain, audioSourceRef,
                           previewAudioSourceRef, sources, rafCallbacks, requests>>
       ELSE LET s == stopPlayback("undefined")
            IN /\ isLoading' = TRUE
               /\ error' = "null"
               /\ sources' = s.sources
               /\ audioSourceRef' = s.audioSourceRef
               /\ previewAudioSourceRef' = s.previewAudioSourceRef
               /\ isPlaying' = s.isPlaying
               /\ rafCallbacks' = s.rafCallbacks
               /\ audioBuffer' = NoBuffer
               /\ setupAudioContext
               /\ requests' = requests \cup
                    {[kind |-> "generate", text |-> text, voice |-> selectedVoice,
                      play |-> playNow, call |-> NextCall]}
    /\ last' = Other
    /\ UNCHANGED <<codec, variant, mounted, text, selectedVoice, isPreviewLoading,
                   currentTime, duration, volume, lastVolume, playbackRate,
                   animationFrameRef, playbackStartTimeRef, startOffsetRef,
                   clock>>
    /\ segment' = SegmentAfter(isPlaying')

\* A click on the generate button.
handleGenerateAudio ==
    /\ UserTurn /\ IsFull /\ GenerateEnabled
    /\ GenerateAudio

\* The rest of handleGenerateAudio, once generateSpeech has settled.
generateSettles(r, reply) ==
    /\ IsFull /\ r \in requests /\ r.kind = "generate" /\ reply \in Replies
    /\ requests' = requests \ {r}
    /\ LET d == Decoded(reply, r.text, r.voice)
       IN IF d.ok
          THEN /\ audioBuffer' = SetState(d.buffer, audioBuffer)
               /\ duration' = SetState(d.buffer.duration, duration)
               /\ currentTime' = SetState(0, currentTime)
               /\ startOffsetRef' = 0
               /\ CallPlay(r.play, 0)
               /\ UNCHANGED error
          ELSE /\ error' = SetState(d.message, error)
               /\ audioBuffer' = SetState(NoBuffer, audioBuffer)
               /\ UNCHANGED <<duration, currentTime, startOffsetRef, sources,
                              audioSourceRef, isPlaying, rafCallbacks,
                              animationFrameRef, playbackStartTimeRef, segment>>
    /\ isLoading' = LoadingDone(isLoading)
    /\ last' = Mark(IF Decoded(reply, r.text, r.voice).ok THEN "generated" ELSE "failed")
    /\ UNCHANGED <<codec, variant, mounted, text, selectedVoice, isPreviewLoading,
                   volume, lastVolume, playbackRate, audioContextRef,
                   gainNodeRef, gain, previewAudioSourceRef, clock>>

handlePreviewVoice ==
    /\ UserTurn /\ PreviewEnabled
    /\ LET s == stopPlayback("undefined")
       IN /\ isPreviewLoading' = TRUE
          /\ error' = "null"
          /\ sources' = s.sources
          /\ audioSourceRef' = s.audioSourceRef
          /\ previewAudioSourceRef' = s.previewAudioSourceRef
          /\ isPlaying' = s.isPlaying
          /\ rafCallbacks' = s.rafCallbacks
          /\ setupAudioContext
          /\ requests' = requests \cup
                {[kind |-> "preview", text |-> PREVIEW_TEXT, voice |-> selectedVoice,
                  play |-> NoPlay, call |-> NextCall]}
    /\ last' = Other
    /\ UNCHANGED <<codec, variant, mounted, text, selectedVoice, isLoading, audioBuffer,
                   currentTime, duration, volume, lastVolume, playbackRate,
                   animationFrameRef, playbackStartTimeRef, startOffsetRef,
                   clock>>
    /\ segment' = SegmentAfter(isPlaying')

\* The rest of handlePreviewVoice, once generateSpeech has settled.
previewSettles(r, reply) ==
    /\ IsFull /\ r \in requests /\ r.kind = "preview" /\ reply \in PreviewReplies
    /\ requests' = requests \ {r}
    /\ LET d == Decoded(reply, r.text, r.voice)
           id == FreshId(DOMAIN sources, 2)
           node == [kind |-> "preview", buffer |-> d.buffer, offset |-> 0,
                    pos |-> 0, rate |-> NodeRate, state |-> "playing",
                    onended |-> NoHandler]
       IN IF d.ok
          THEN /\ IF audioContextRef # "null" /\ gainNodeRef # "null"
                  THEN /\ sources' = Reachable(
                               [i \in DOMAIN sources \cup {id} |->
                                    IF i = id THEN node ELSE sources[i]],
                               audioSourceRef, id)
                       /\ previewAudioSourceRef' = id
                  ELSE UNCHANGED <<sources, previewAudioSourceRef>>
               /\ UNCHANGED error
          ELSE /\ error' = SetState(d.message, error)
               /\ UNCHANGED <<sources, previewAudioSourceRef>>
    /\ isPreviewLoading' = LoadingDone(isPreviewLoading)
    /\ last' = Other
    /\ UNCHANGED <<codec, variant, mounted, text, selectedVoice, isLoading, audioBuffer,
                   isPlaying, currentTime, duration, volume, lastVolume,
                   playbackRate, audioContextRef, gainNodeRef, gain,
                   audioSourceRef, animationFrameRef, playbackStartTimeRef,
                   startOffsetRef, clock, rafCallbacks, segment>>

----------------------------------------------------------------------------
(* The simple page: one button that generates, or plays again.             *)

\* createBufferSource(); source.buffer = b; source.start(0)
SimpleNode(b) ==
    [kind |-> "main", buffer |-> b, offset |-> 0, pos |-> 0, rate |-> NodeRate,
     state |-> "playing", onended |-> NoHandler]

\* Start a node on b after srcs, and make audioSourceRef hold it.
StartSimple(srcs, b) ==
    LET id == FreshId(DOMAIN srcs, 1)
    IN /\ sources' = Reachable([i \in DOMAIN srcs \cup {id} |->
                                    IF i = id THEN SimpleNode(b) ELSE srcs[i]],
                               id, NoSource)
       /\ audioSourceRef' = id

\* The code of handleGenerateAndPlay up to its await.
GenerateAndPlay ==
    /\ IF IsBlank(text)
       THEN /\ error' = "blank"
            /\ UNCHANGED <<isLoading, sources, audioSourceRef, requests>>
       ELSE LET stopped == StopNode(sources, audioSourceRef, FALSE)
            IN /\ error' = "null"
               /\ IF audioBuffer # NoBuffer
                  THEN /\ IF audioContextRef # "null"
                          THEN StartSimple(stopped, audioBuffer)
                          ELSE /\ sources' = stopped
                               /\ UNCHANGED audioSourceRef
                       /\ isLoading' = FALSE
                       /\ UNCHANGED requests
                  ELSE /\ sources' = stopped
                       /\ isLoading' = TRUE
                       /\ requests' = requests \cup
                            {[kind |-> "generate", text |-> text,
                              voice |-> selectedVoice, play |-> NoPlay,
                              call |-> NextCall]}
                       /\ UNCHANGED audioSourceRef
    /\ last' = Other
    /\ UNCHANGED <<codec, variant, mounted, text, selectedVoice, isPreviewLoading,
                   audioBuffer, isPlaying, currentTime, duration, volume,
                   lastVolume, playbackRate, audioContextRef, gainNodeRef, gain,
                   previewAudioSourceRef, animationFrameRef,
                   playbackStartTimeRef, startOffsetRef, clock, rafCallbacks,
                   segment>>

\* A click on the button of the simple page.
handleGenerateAndPlay ==
    /\ UserTurn /\ ~IsFull /\ GenerateEnabled
    /\ GenerateAndPlay

\* The rest of handleGenerateAndPlay, once generateSpeech has settled.
generateAndPlaySettles(r, reply) ==
    /\ ~IsFull /\ r \in requests /\ reply \in Replies
    /\ requests' = requests \ {r}
    /\ LET d == Decoded(reply, r.text, r.voice)
       IN IF reply.kind = "rejected" \/ reply.kind = "empty"
          THEN /\ error' = SetState(d.message, error)
               /\ audioBuffer' = SetState(NoBuffer, audioBuffer)
               /\ UNCHANGED <<audioContextRef, sources, audioSourceRef>>
          ELSE /\ audioContextRef' = (IF audioContextRef = "null" THEN "running"
                                      ELSE audioContextRef)
               /\ IF d.ok
                  THEN /\ audioBuffer' = SetState(d.buffer, audioBuffer)
                       /\ StartSimple(sources, d.buffer)
                       /\ UNCHANGED error
                  ELSE /\ error' = SetState(d.message, error)
                       /\ audioBuffer' = SetState(NoBuffer, audioBuffer)
                       /\ UNCHANGED <<sources, audioSourceRef>>
    /\ isLoading' = LoadingDone(isLoading)
    /\ last' = Mark(IF Decoded(reply, r.text, r.voice).ok THEN "generated" ELSE "failed")
    /\ UNCHANGED <<codec, variant, mounted, text, selectedVoice, isPreviewLoading,
                   isPlaying, currentTime, duration, volume, lastVolume,
                   playbackRate, gainNodeRef, gain, previewAudioSourceRef,
                   animationFrameRef, playbackStartTimeRef, startOffsetRef,
                   clock, rafCallbacks, segment>>

----------------------------------------------------------------------------
(* The browser: display frames, the audio clock, ended events, unmount.    *)

\* A display-refresh tick runs scheduled callback `id`: updateProgress of
\* the render that scheduled it.
updateProgress(id) ==
    /\ id \in DOMAIN rafCallbacks
    /\ LET cb == rafCallbacks[id]
           rest == cancelAnimationFrame(rafCallbacks, id)
           next == NextFrameId(rest)
       IN IF cb.isPlaying /\ audioContextRef # "null"
          THEN LET elapsedTime == Elapsed(clock, playbackStartTimeRef) * cb.playbackRate
                   newTime == startOffsetRef + elapsedTime
               IN /\ currentTime' = newTime
                  /\ rafCallbacks' = [i \in DOMAIN rest \cup {next} |->
                                        IF i = next THEN cb ELSE rest[i]]
                  /\ animationFrameRef' = next
          ELSE /\ rafCallbacks' = rest
               /\ UNCHANGED <<currentTime, animationFrameRef>>
    /\ last' = Mark("frame")
    /\ UNCHANGED <<codec, variant, mounted, text, selectedVoice, isLoading,
                   isPreviewLoading, audioBuffer, error, isPlaying, duration,
                   volume, lastVolume, playbackRate, audioContextRef,
                   gainNodeRef, gain, audioSourceRef, previewAudioSourceRef,
                   playbackStartTimeRef, startOffsetRef, clock, sources,
                   requests, segment>>

\* A playing node has reached the end of its buffer.
Finished(n) == n.state = "playing" /\ n.pos >= n.buffer.duration

\* The ended event of a node is due: it finished, or it was stopped with a
\* handler still attached.
EndedDue(n) == Finished(n) \/ (n.state = "stopped" /\ n.onended.armed)

\* The offset source.onended computes, with the playbackRate of its play().
EndOffset(handler) ==
    startOffsetRef + Elapsed(clock, playbackStartTimeRef) * handler.playbackRate

AtEnd_strict(newOffset, buffer) == newOffset > buffer.duration

\* newOffset >= audioBuffer.duration - 0.01
AtEnd(newOffset, buffer) == newOffset >= buffer.duration - Epsilon

\* The ended event of node `id` is dispatched; source.onended runs if set.
onended(id) ==
    /\ id \in DOMAIN sources /\ EndedDue(sources[id])
    /\ LET n == sources[id]
           done == [sources EXCEPT ![id] =
                        [@ EXCEPT !.state = IF @ = "playing" THEN "ended" ELSE @,
                                  !.onended = NoHandler]]
           newOffset == EndOffset(n.onended)
       IN /\ sources' = Reachable(done, audioSourceRef, previewAudioSourceRef)
          /\ IF n.onended.armed /\ audioContextRef # "null"
             THEN /\ startOffsetRef' =
                        (IF AtEnd(newOffset, n.buffer) THEN 0 ELSE newOffset)
                  /\ isPlaying' = FALSE
                  /\ rafCallbacks' = cancelAnimationFrame(rafCallbacks, animationFrameRef)
                  /\ currentTime' =
                        (IF AtEnd(newOffset, n.buffer)
                         THEN n.buffer.duration ELSE currentTime)
                  /\ last' = Did("ended", n.buffer.duration)
             ELSE /\ UNCHANGED <<startOffsetRef, isPlaying, rafCallbacks, currentTime>>
                  /\ last' = Other
    /\ UNCHANGED <<codec, variant, mounted, text, selectedVoice, isLoading,
                   isPreviewLoading, audioBuffer, error, duration, volume,
                   lastVolume, playbackRate, audioContextRef, gainNodeRef, gain,
                   audioSourceRef, previewAudioSourceRef, animationFrameRef,
                   playbackStartTimeRef, clock, requests>>
    /\ segment' = SegmentAfter(isPlaying')

\* Where a node playing at `rate` is one tick later: it stops advancing at
\* the end of its buffer.
Advance(n) ==
    IF n.pos + TickLen * n.rate >= n.buffer.duration
    THEN n.buffer.duration
    ELSE n.pos + TickLen * n.rate

\* The audio clock advances by one tick; every playing node advances by
\* its rate.  An ended event that is due is dispatched before the next tick.
Tick ==
    /\ audioContextRef = "running"
    /\ clock < MaxClock \/ \E i \in DOMAIN sources : sources[i].state = "playing"
    /\ \A i \in DOMAIN sources : ~EndedDue(sources[i])
    /\ clock' = clock + 1
    /\ sources' = [i \in DOMAIN sources |->
                      IF sources[i].state = "playing"
                      THEN [sources[i] EXCEPT !.pos = Advance(sources[i])]
                      ELSE sources[i]]
    /\ last' = Other
    /\ UNCHANGED <<codec, variant, mounted, text, selectedVoice, isLoading,
                   isPreviewLoading, audioBuffer, error, isPlaying, currentTime,
                   duration, volume, lastVolume, playbackRate, audioContextRef,
                   gainNodeRef, gain, audioSourceRef, previewAudioSourceRef,
                   animationFrameRef, playbackStartTimeRef, startOffsetRef,
                   rafCallbacks, requests, segment>>

\* The component is torn down.  The full page's cleanup stops everything
\* and closes the context; the simple page has no cleanup.
unmount ==
    /\ mounted
    /\ mounted' = FALSE
    /\ IF IsFull
       THEN LET s == stopPlayback("undefined")
            IN /\ sources' = s.sources
               /\ audioSourceRef' = s.audioSourceRef
               /\ previewAudioSourceRef' = s.previewAudioSourceRef
               /\ isPlaying' = s.isPlaying
               /\ rafCallbacks' = s.rafCallbacks
               /\ audioContextRef' = (IF audioContextRef = "null" THEN "null" ELSE "closed")
       ELSE UNCHANGED <<sources, audioSourceRef, previewAudioSourceRef, isPlaying,
                        rafCallbacks, audioContextRef>>
    /\ last' = Other
    /\ UNCHANGED <<codec, variant, text, selectedVoice, isLoading, isPreviewLoading,
                   audioBuffer, error, currentTime, duration, volume, lastVolume,
                   playbackRate, gainNodeRef, gain, animationFrameRef,
                   playbackStartTimeRef, startOffsetRef, clock, requests>>
    /\ segment' = SegmentAfter(isPlaying')

----------------------------------------------------------------------------
(* The codec functions: PCM bytes to AudioBuffer, AudioBuffer to a file.   *)

\* The most 16-bit samples in the PCM bytes handed to decodeAudioData.
MaxSamples == 3

\* How many times bytes are decoded: the PCM bytes, then the data chunk
\* of the file made from them.
MaxPasses == 2

\* channelData[i] = dataInt16[...] / 32768.0: a Float32 sample is kept as
\* its numerator over 32768, which a Float32 holds exactly.
Scale == 32768

\* s < 0 ? s * 0x8000 : s * 0x7FFF
NegScale == 32768
PosScale == 32767

Int16Modulus == 65536

\* decodeAudioData(decodedBytes, audioContextRef.current, 24000, 1)
SampleRate == 24000

\* const format = 1; const bitDepth = 16; the header is 44 bytes long.
format == 1
bitDepth == 16
HeaderLength == 44

\* The samples the PCM bytes are made of: the ends of the 16-bit range
\* and the values around zero.
Samples == {0 - 32768, 0 - 2, 0 - 1, 0, 1, 2, 32767}

\* The conversion of a number to Int16 that DataView.setInt16 applies to
\* an integer: modulo 2^16, into [-2^15, 2^15).
ToInt16(v) ==
    LET u == v % Int16Modulus
    IN IF u >= Int16Modulus \div 2 THEN u - Int16Modulus ELSE u

\* The integer part of a / b, b > 0: the truncation towards zero that
\* setInt16 applies to a fractional value.
Truncate(a, b) == IF a >= 0 THEN a \div b ELSE 0 - ((0 - a) \div b)

\* view.setInt16(offset, v, true): the two bytes of v, low byte first.
setInt16(v) ==
    LET u == v % Int16Modulus
    IN <<u % 256, u \div 256>>

\* view.setUint16(offset, v, true)
setUint16(v) ==
    LET u == v % 65536
    IN <<u % 256, u \div 256>>

\* view.setUint32(offset, v, true): the four low bytes of v, low byte first.
setUint32(v) ==
    <<v % 256, (v \div 256) % 256, (v \div 65536) % 256, (v \div 16777216) % 256>>

\* str.charCodeAt(i) of the letters the header tags are made of.
charCodeAt(c) ==
    CASE c = "R" -> 82 [] c = "I" -> 73 [] c = "F" -> 70 [] c = "W" -> 87
      [] c = "A" -> 65 [] c = "V" -> 86 [] c = "E" -> 69 [] c = "f" -> 102
      [] c = "m" -> 109 [] c = "t" -> 116 [] c = " " -> 32 [] c = "d" -> 100
      [] c = "a" -> 97

\* writeString(view, offset, str): one byte for each character.
writeString(str) == [i \in 1..Len(str) |-> charCodeAt(str[i])]

RECURSIVE WriteSamples(_)
\* The bytes of a sequence of 16-bit values written one after the other.
WriteSamples(vs) ==
    IF vs = << >> THEN << >> ELSE setInt16(Head(vs)) \o WriteSamples(Tail(vs))

Int16Array_bigEndian(data) ==
    [i \in 1..(Len(data) \div 2) |->
        ToInt16(256 * data[2 * i - 1] + data[2 * i])]

\* new Int16Array(data.buffer): the bytes read in pairs, low byte first.
Int16Array(data) ==
    [i \in 1..(Len(data) \div 2) |->
        ToInt16(data[2 * i - 1] + 256 * data[2 * i])]

NoAudioBuffer == << >>

\* decodeAudioData.  new Int16Array throws a RangeError on an odd number
\* of bytes.  frameCount is a quotient that need not be whole: createBuffer
\* takes its integer part as the length and throws NotSupportedError when
\* that is 0; the loop then fills, channel by channel, the frames the
\* buffer has with the sample of the frame divided by 32768.0 (kept as
\* the numerator over Scale) and its writes past the length are dropped.
decodeAudioData(data, numChannels) ==
    IF Len(data) % 2 # 0
    THEN [ok |-> FALSE, error |-> "RangeError", buffer |-> NoAudioBuffer]
    ELSE LET dataInt16 == Int16Array(data)
             length == Len(dataInt16) \div numChannels
         IN IF length = 0
            THEN [ok |-> FALSE, error |-> "NotSupportedError", buffer |-> NoAudioBuffer]
            ELSE [ok |-> TRUE, error |-> "null",
                  buffer |-> [channel \in 1..numChannels |->
                                [i \in 1..length |->
                                    dataInt16[(i - 1) * numChannels + channel]]]]

\* Math.max(-1, Math.min(1, input[i])), then the scaling and setInt16.
floatTo16BitPCM(sample) ==
    LET lo == IF sample < Scale THEN sample ELSE Scale
        s == IF lo > 0 - Scale THEN lo ELSE 0 - Scale
    IN ToInt16(IF s < 0 THEN Truncate(s * NegScale, Scale)
                        ELSE Truncate(s * PosScale, Scale))

\* The values the interleaving loop writes: frame by frame, channel by channel.
Interleaved(buffer) ==
    LET numOfChan == Len(buffer)
        length == Len(buffer[1])
    IN [k \in 1..(length * numOfChan) |->
          floatTo16BitPCM(buffer[((k - 1) % numOfChan) + 1][((k - 1) \div numOfChan) + 1])]

WavHeader_riffIsLength(numOfChan, sampleRate, length) ==
    writeString(<<"R", "I", "F", "F">>) \o setUint32(length)
    \o writeString(<<"W", "A", "V", "E">>)
    \o writeString(<<"f", "m", "t", " ">>) \o setUint32(16)
    \o setUint16(format) \o setUint16(numOfChan)
    \o setUint32(sampleRate)
    \o setUint32(sampleRate * numOfChan * (bitDepth \div 8))
    \o setUint16(numOfChan * (bitDepth \div 8))
    \o setUint16(bitDepth)
    \o writeString(<<"d", "a", "t", "a">>) \o setUint32(length)

\* The RIFF header, the fmt sub-chunk and the head of the data sub-chunk,
\* as both encoders write them.
WavHeader(numOfChan, sampleRate, length) ==
    writeString(<<"R", "I", "F", "F">>) \o setUint32(36 + length)
    \o writeString(<<"W", "A", "V", "E">>)
    \o writeString(<<"f", "m", "t", " ">>) \o setUint32(16)
    \o setUint16(format) \o setUint16(numOfChan)
    \o setUint32(sampleRate)
    \o setUint32(sampleRate * numOfChan * (bitDepth \div 8))
    \o setUint16(numOfChan * (bitDepth \div 8))
    \o setUint16(bitDepth)
    \o writeString(<<"d", "a", "t", "a">>) \o setUint32(length)

\* audioBufferToWav: the header and the data chunk; one channel is
\* written by floatTo16BitPCM over channel 0, more are interleaved.
audioBufferToWav(buffer) ==
    LET numOfChan == Len(buffer)
        length == Len(buffer[1]) * numOfChan * (bitDepth \div 8)
    IN [type |-> "audio/wav",
        bytes |-> WavHeader(numOfChan, SampleRate, length) \o
                  (IF numOfChan = 1
                   THEN WriteSamples([i \in 1..Len(buffer[1]) |->
                                         floatTo16BitPCM(buffer[1][i])])
                   ELSE WriteSamples(Interleaved(buffer)))]

\* audioBufferToMp3: the same container, always interleaved, labelled mpeg.
audioBufferToMp3(buffer) ==
    LET numOfChan == Len(buffer)
        length == Len(buffer[1]) * numOfChan * (bitDepth \div 8)
    IN [type |-> "audio/mpeg",
        bytes |-> WavHeader(numOfChan, SampleRate, length) \o
                  WriteSamples(Interleaved(buffer))]

NoFile == [type |-> "null", bytes |-> << >>]

\* What follows the header of a file.
DataChunk(file) == SubSeq(file.bytes, HeaderLength + 1, Len(file.bytes))

\* Bytes handed to decodeAudioData with a channel count: 16-bit samples,
\* MaxSamples at most, whole frames or not, and at times one byte more.
PcmInputs ==
    {[numChannels |-> c, data |-> WriteSamples(x) \o tail] :
        c \in 1..2,
        x \in UNION {[1..n -> Samples] : n \in 0..MaxSamples},
        tail \in {<< >>, <<1>>}}

\* A thrown value: an Error with its message, or something else.
Thrown(isError, message) == [isError |-> isError, message |-> message]

NoError == Thrown(FALSE, << >>)

\* What ai.models.generateContent does: it resolves with a response whose
\* first part holds base64 data, an empty string or nothing, or it rejects
\* with an Error of the SDK or with a value that is no Error.
Responses ==
    {[kind |-> "resolved", data |-> d, reason |-> NoError] :
        d \in {"undefined", "", "AAD/fw=="}}
    \cup {[kind |-> "rejected", data |-> "undefined", reason |-> e] :
        e \in {Thrown(TRUE, <<"fetch failed">>),
               Thrown(TRUE, <<"429 Too Many Requests">>),
               Thrown(FALSE, <<"timeout">>)}}

NoResponse == [kind |-> "none", data |-> "undefined", reason |-> NoError]

NoOutcome == [returned |-> FALSE, value |-> "undefined", error |-> NoError]

Rethrown_generic(caught) ==
    [returned |-> FALSE, value |-> "undefined",
     error |-> Thrown(TRUE, <<"Failed to generate speech: ",
                               "An unknown error occurred.">>)]

\* The catch of generateSpeech: a new Error whose message is the prefix
\* followed by the message of the Error caught, or by the fixed text.
Rethrown(caught) ==
    [returned |-> FALSE, value |-> "undefined",
     error |-> Thrown(TRUE,
                 <<"Failed to generate speech: ">> \o
                 (IF caught.isError THEN caught.message
                  ELSE <<"An unknown error occurred.">>))]

\* generateSpeech: the payload of the response, or the Error rethrown by
\* the catch, which also catches the Error thrown for !base64Audio.
generateSpeech(response) ==
    IF response.kind = "rejected"
    THEN Rethrown(response.reason)
    ELSE IF response.data \in {"undefined", ""}
         THEN Rethrown(Thrown(TRUE, <<"No audio data was returned from the API.">>))
         ELSE [returned |-> TRUE, value |-> response.data, error |-> NoError]

\* The page has called, decoded and encoded nothing yet.
NoCodec ==
    [stage |-> "idle", response |-> NoResponse, outcome |-> NoOutcome,
     numChannels |-> 1, data |-> << >>,
     buffer |-> NoAudioBuffer, error |-> "null", file |-> NoFile, pass |-> 0,
     firstBuffer |-> NoAudioBuffer, firstFile |-> NoFile]

InitCodec ==
    /\ PageInit /\ IsFull
    /\ \/ \E in \in PcmInputs :
             codec = [NoCodec EXCEPT !.stage = "data",
                                     !.numChannels = in.numChannels,
                                     !.data = in.data]
       \/ \E response \in Responses :
             codec = [NoCodec EXCEPT !.stage = "call", !.response = response]

\* generateSpeech settles on the response of the remote call.
calls ==
    /\ codec.stage = "call"
    /\ LET outcome == generateSpeech(codec.response)
       IN codec' = [codec EXCEPT
                       !.stage = IF outcome.returned THEN "returned" ELSE "thrown",
                       !.outcome = outcome]
    /\ UNCHANGED pageVars

\* decodeAudioData is applied to the bytes at hand.
decodes ==
    /\ codec.stage = "data"
    /\ LET d == decodeAudioData(codec.data, codec.numChannels)
       IN codec' = [codec EXCEPT !.stage = IF d.ok THEN "buffer" ELSE "failed",
                                 !.buffer = d.buffer,
                                 !.error = d.error,
                                 !.pass = @ + 1,
                                 !.firstBuffer = IF codec.pass = 0 THEN d.buffer ELSE @]
    /\ UNCHANGED pageVars

Encoded(file) ==
    [codec EXCEPT !.stage = "file",
                  !.file = file,
                  !.firstFile = IF codec.pass = 1 THEN file ELSE @]

encodesWav ==
    /\ codec.stage = "buffer"
    /\ codec' = Encoded(audioBufferToWav(codec.buffer))
    /\ UNCHANGED pageVars

encodesMp3 ==
    /\ codec.stage = "buffer"
    /\ codec' = Encoded(audioBufferToMp3(codec.buffer))
    /\ UNCHANGED pageVars

\* The data chunk of the file is taken as PCM bytes again.
reads ==
    /\ codec.stage = "file" /\ codec.pass < MaxPasses
    /\ codec' = [codec EXCEPT !.stage = "data", !.data = DataChunk(codec.file)]
    /\ UNCHANGED pageVars

Codec == calls \/ decodes \/ encodesWav \/ encodesMp3 \/ reads

SpecCodec == InitCodec /\ [][Codec]_vars

----------------------------------------------------------------------------
(* Specifications                                                          *)

Init == PageInit /\ codec = NoCodec

User ==
    \/ \E t \in Texts : setText(t)
    \/ \E v \in VOICES : setSelectedVoice(v)
    \/ handleGenerateAudio
    \/ handlePreviewVoice
    \/ handleGenerateAndPlay
    \/ handleTogglePlayPause
    \/ \E t \in SeekTargets(duration) : handleSeek(t)
    \/ \E r \in Rates : handleSpeedChange(r)
    \/ handleToggleMute
    \/ \E v \in Volumes : handleVolumeChange(v)
    \/ unmount

Browser ==
    \/ \E r \in requests, reply \in Replies : generateSettles(r, reply)
    \/ \E r \in requests, reply \in PreviewReplies : previewSettles(r, reply)
    \/ \E r \in requests, reply \in Replies : generateAndPlaySettles(r, reply)
    \/ \E id \in DOMAIN rafCallbacks : updateProgress(id)
    \/ \E id \in DOMAIN sources : onended(id)
    \/ Tick

Next == User \/ Browser

Spec == Init /\ [][Next]_vars

\* The user leaves the page alone while it plays: no gesture is taken
\* between a play() and the end of its buffer.
HandsOff == (~isPlaying /\ User) \/ Browser

\* The audio clock runs while a context is running, and the browser
\* dispatches every ended event that is due.
Fairness ==
    /\ WF_vars(Tick)
    /\ WF_vars(\E id \in DOMAIN sources : onended(id))

SpecHandsOff == Init /\ [][HandsOff]_vars /\ Fairness

\* Every call of generateSpeech settles: the promise a handler awaits is
\* resolved or rejected, and the rest of the handler runs.
Settling ==
    /\ WF_vars(\E r \in requests, reply \in Replies : generateSettles(r, reply))
    /\ WF_vars(\E r \in requests, reply \in PreviewReplies : previewSettles(r, reply))
    /\ WF_vars(\E r \in requests, reply \in Replies : generateAndPlaySettles(r, reply))

SpecSettling == Init /\ [][Next]_vars /\ Settling

\* Texts that trim to nothing.
BlankTexts == {<< >>, <<" ">>}

\* The generate handler run on a blank text.  The page keeps its button
\* disabled then, so no click does this: the handler is called as a
\* function, as a test of it would.
callGenerateBlank ==
    /\ UserTurn /\ text \in BlankTexts
    /\ IF IsFull THEN GenerateAudio ELSE GenerateAndPlay

\* The page with its generate handler also called directly on blank texts.
Direct ==
    \/ \E t \in Texts \cup BlankTexts : setText(t)
    \/ handleGenerateAudio
    \/ handleGenerateAndPlay
    \/ handlePreviewVoice
    \/ handleTogglePlayPause
    \/ callGenerateBlank
    \/ Browser

SpecDirect == Init /\ [][Direct]_vars

----------------------------------------------------------------------------
(* Properties                                                              *)

\* The main sources of `srcs` that sound.
ActiveMain(srcs) ==
    {i \in DOMAIN srcs : srcs[i].kind = "main" /\ srcs[i].state = "playing"}

\* C1: while isPlaying is true exactly one main source is active and it
\* plays the current audioBuffer; at every moment at most one main source
\* and at most one preview source are active.
C1_OneActiveSourcePerKind ==
    /\ Cardinality(Playing("main")) <= 1
    /\ Cardinality(Playing("preview")) <= 1
    /\ isPlaying =>
          /\ Playing("main") = {audioSourceRef}
          /\ audioBuffer # NoBuffer
          /\ sources[audioSourceRef].buffer = audioBuffer

\* A seek has just restarted the main source while a preview still sounds.
C1_Witness ==
    /\ last.op = "seek" /\ last.wasPlaying /\ isPlaying
    /\ Playing("main") = {audioSourceRef}
    /\ Playing("preview") # {}

\* C2: pause() while playing, D clock seconds after the play() that began
\* the segment, leaves startOffsetRef at its value at that play() plus
\* D * playbackRate, stops the main source and cancels the scheduled
\* frame; a play() that follows starts the source at that offset (when it
\* lies inside the buffer).
C2_PauseFoldsElapsedTimesRate ==
    [][ /\ (isPlaying /\ last'.op = "pause") =>
              /\ startOffsetRef' =
                    segment.offset + Elapsed(clock, segment.start) * playbackRate
              /\ ~isPlaying'
              /\ audioSourceRef' = NoSource
              /\ ActiveMain(sources') = {}
              /\ DOMAIN rafCallbacks' = {}
        /\ (last.op = "pause" /\ last'.op = "play"
                /\ startOffsetRef < audioBuffer.duration) =>
              /\ isPlaying'
              /\ sources'[audioSourceRef'].offset = startOffsetRef
      ]_vars

\* Paused one tick after a play() from the start at 2.0x, inside the buffer.
C2_Witness ==
    /\ last.op = "pause" /\ last.wasPlaying /\ ~isPlaying
    /\ playbackRate = 2
    /\ startOffsetRef = 2 * TickLen
    /\ startOffsetRef < duration

\* C3: the offset pause() folds into startOffsetRef is what the source
\* really played in the segment, the sum of D * rate over the stretches of
\* the segment, whatever the rate was changed to on the way.
C3_RateChangeKeepsFoldedOffset ==
    [][ (/\ isPlaying /\ last'.op = "pause"
         /\ audioSourceRef \in DOMAIN sources
         /\ ~Finished(sources[audioSourceRef])) =>
            startOffsetRef' = segment.offset + MainAdvance
      ]_vars

\* C4: when the main source ends by itself, onended recomputes
\* startOffsetRef + elapsed * playbackRate; if that is at least
\* duration - 0.01 then startOffsetRef becomes 0 and currentTime the
\* duration, else startOffsetRef becomes the recomputed offset; isPlaying
\* is false and no frame stays scheduled.
C4_NaturalEndResets ==
    [][ (/\ last'.op = "ended"
         /\ audioSourceRef \in DOMAIN sources
         /\ Finished(sources[audioSourceRef])) =>
            LET recomputed ==
                    startOffsetRef + Elapsed(clock, playbackStartTimeRef) * playbackRate
            IN /\ ~isPlaying'
               /\ DOMAIN rafCallbacks' = {}
               /\ IF recomputed >= audioBuffer.duration - Epsilon
                  THEN startOffsetRef' = 0 /\ currentTime' = audioBuffer.duration
                  ELSE startOffsetRef' = recomputed
      ]_vars

\* What handleSeek(t) and the play() after it leave, given where a source
\* asked to start at t starts.
SeekOutcome(startsAt(_)) ==
    /\ last'.op = "seek" =>
          /\ startOffsetRef' = last'.t
          /\ currentTime' = last'.t
          /\ IF isPlaying
             THEN /\ isPlaying'
                  /\ ActiveMain(sources') = {audioSourceRef'}
                  /\ sources'[audioSourceRef'].offset = startsAt(last'.t)
                  /\ sources'[audioSourceRef'].pos = startsAt(last'.t)
                  /\ playbackStartTimeRef' = clock'
             ELSE /\ ~isPlaying'
                  /\ sources' = sources
    /\ (last.op = "seek" /\ ~isPlaying /\ last'.op = "play") =>
          /\ isPlaying'
          /\ ActiveMain(sources') = {audioSourceRef'}
          /\ sources'[audioSourceRef'].offset = startsAt(last.t)

SeekTarget(t) == t

SeekTargetOrStart(t) == IF t < duration THEN t ELSE 0

\* C5 as stated: seek(t) sets startOffsetRef and currentTime to t; while
\* playing it replaces the source by one started at offset t with
\* playbackStartTimeRef the clock; while paused it creates no source and
\* the next play() starts at t.
C5_SeekStartsAtTarget == [][SeekOutcome(SeekTarget)]_vars

\* C5: the same, with the source started at offset t when t is less than
\* the duration and at offset 0 when t is the duration or more.
C5_SeekStartsAtTargetOrStart == [][SeekOutcome(SeekTargetOrStart)]_vars

\* A seek to the very end while playing restarted the source at 0.
C5_Witness ==
    /\ last.op = "seek" /\ last.wasPlaying /\ isPlaying
    /\ last.t = duration /\ duration > 0
    /\ startOffsetRef = duration
    /\ sources[audioSourceRef].offset = 0

\* C6: a play() that finds startOffsetRef at the buffer's duration or
\* beyond (as after a seek to the end) starts the source at offset 0.
C6_PlayAtEndRestarts ==
    (/\ last.op = "play"
     /\ audioBuffer # NoBuffer
     /\ startOffsetRef >= audioBuffer.duration) =>
        /\ isPlaying
        /\ Playing("main") = {audioSourceRef}
        /\ sources[audioSourceRef].offset = 0
        /\ sources[audioSourceRef].pos = 0

\* play() has just run after a seek to the end while paused.
C6_Witness ==
    /\ last.op = "play" /\ last.after = "seek" /\ ~last.wasPlaying
    /\ audioBuffer # NoBuffer
    /\ startOffsetRef = audioBuffer.duration
    /\ isPlaying
    /\ sources[audioSourceRef].offset = 0

\* C7: in a segment begun by a play() from not-playing, every frame that
\* runs while playing publishes startOffsetRef + elapsed * playbackRate as
\* currentTime and schedules the next frame.
C7_PollingPublishesPosition ==
    (last.op = "frame" /\ isPlaying /\ segment.fromIdle) =>
        /\ currentTime =
              startOffsetRef + Elapsed(clock, playbackStartTimeRef) * playbackRate
        /\ DOMAIN rafCallbacks # {}

\* C8: at most one frame callback is scheduled, and only while playing:
\* every way out of playing leaves none.
C8_OneFrameOnlyWhilePlaying ==
    /\ Cardinality(DOMAIN rafCallbacks) <= 1
    /\ DOMAIN rafCallbacks # {} => isPlaying /\ mounted

\* pause() has just left playing with a frame callback scheduled.
C8_Witness ==
    /\ last.op = "pause" /\ last.wasPlaying /\ last.polling
    /\ ~isPlaying
    /\ DOMAIN rafCallbacks = {}

\* C9: when a generate call has succeeded, a main source plays the new
\* buffer from offset 0, and in the full page isPlaying is true.
C9_GenerateStartsPlayback ==
    (last.op = "generated" /\ mounted) =>
        /\ audioBuffer # NoBuffer
        /\ \E i \in Playing("main") :
              sources[i].buffer = audioBuffer /\ sources[i].offset = 0
        /\ IsFull => isPlaying

\* C10: left alone at a constant rate, a page that plays eventually stops
\* playing with startOffsetRef back at 0.
C10_PlaybackRunsToTheEnd ==
    isPlaying ~> (~isPlaying /\ startOffsetRef = 0)

\* The source has ended by itself and the transport is back at the start.
C10_Witness ==
    /\ last.op = "ended" /\ last.wasPlaying
    /\ ~isPlaying /\ startOffsetRef = 0
    /\ duration > 0 /\ currentTime = duration

\* C11: when a generate call sends its remote request, no main source is
\* active any more, and in the full page isPlaying is false and the
\* previous buffer is cleared.
C11_GenerateStopsPlaybackFirst ==
    [][ (\E r \in requests' \ requests : r.kind = "generate") =>
            /\ ActiveMain(sources') = {}
            /\ IsFull => (~isPlaying' /\ audioBuffer' = NoBuffer)
      ]_vars

\* A generate request is out on a full page that has played before.
C11_Witness ==
    /\ IsFull /\ mounted
    /\ \E r \in requests : r.kind = "generate"
    /\ animationFrameRef # NoFrame
    /\ ActiveMain(sources) = {}
    /\ ~isPlaying /\ audioBuffer = NoBuffer

\* C12: when a generate call has failed (call rejected, no audio, text
\* that is no base64, bytes that do not decode), the buffer is null, no
\* main source is active, isPlaying and isLoading are false, an error
\* message is set, and generate can be asked again.
C12_FailedGenerateLeavesEmptyState ==
    (last.op = "failed" /\ mounted) =>
        /\ audioBuffer = NoBuffer
        /\ ActiveMain(sources) = {}
        /\ ~isPlaying
        /\ ~isLoading
        /\ error \notin {"null", ""}
        /\ GenerateEnabled

\* A generate call has just failed on bytes that do not decode.
C12_Witness ==
    /\ last.op = "failed" /\ mounted
    /\ error = "RangeError"
    /\ audioBuffer = NoBuffer /\ ~isLoading

\* C13: the generate handler run on an empty or whitespace-only text sets
\* an error message, sends no request, and leaves isLoading, the buffer,
\* the sources and the playback state as they were.
C13_BlankTextIsRefused ==
    [][ callGenerateBlank =>
            /\ error' = "blank"
            /\ requests' = requests
            /\ UNCHANGED <<text, selectedVoice, isLoading, isPreviewLoading,
                           audioBuffer, sources, audioSourceRef,
                           previewAudioSourceRef, isPlaying, currentTime,
                           duration, startOffsetRef, playbackStartTimeRef,
                           playbackRate, volume, lastVolume, rafCallbacks,
                           animationFrameRef, audioContextRef, gainNodeRef, gain>>
      ]_vars

\* The handler has refused a whitespace-only text while a preview sounds.
C13_Witness ==
    /\ text = <<" ">>
    /\ error = "blank"
    /\ requests = {}
    /\ Playing("preview") # {}

\* The generate calls whose remote request has not settled.
Outstanding == {r \in requests : r.kind = "generate"}

GenerateBegins == handleGenerateAudio /\ ~IsBlank(text)

PlayBegins ==
    \/ ~isPlaying /\ handleTogglePlayPause
    \/ isPlaying /\ \E t \in SeekTargets(duration) : handleSeek(t)

\* C16: right after generate, a new preview or play() has begun, no
\* preview source that was started before is still active.
C16_PreviewTornDownOnBegin ==
    [][ (GenerateBegins \/ handlePreviewVoice \/ PlayBegins) =>
            Playing("preview")' = {} ]_vars

\* C17: the mute button pressed at a volume v > 0 stores v and sets the
\* volume to 0; pressed at volume 0 it sets the volume to the stored one,
\* which is the most recent non-zero volume (the default before any was
\* set, and never 0, whatever the slider did, a move to 0 included); so
\* an unmute right after a mute at v gives v back.
C17_MuteUnmuteRestoresVolume ==
    /\ lastVolume = DefaultVolume
    /\ [](lastVolume > 0 /\ (volume > 0 => lastVolume = volume))
    /\ [][ handleToggleMute =>
              IF volume > 0
              THEN volume' = 0 /\ lastVolume' = volume
              ELSE volume' = lastVolume /\ lastVolume' = lastVolume ]_vars
    /\ []((last.op = "unmute" /\ last.t > 0) => volume = last.t)

\* Half volume was muted and the unmute has brought it back.
C17_Witness ==
    /\ last.op = "unmute" /\ last.t = 1
    /\ volume = 1 /\ volume # DefaultVolume

\* A step that replaces or clears the buffer: the text or the voice
\* changes, a generate call begins, or a completion sets the buffer.
BufferReplaced ==
    \/ text' # text
    \/ selectedVoice' # selectedVoice
    \/ \E r \in requests' \ requests : r.kind = "generate"
    \/ audioBuffer' # audioBuffer

\* C18: whenever the buffer is replaced or cleared, the whole playback
\* state is back at its defaults: not playing, start offset 0, rate 1,
\* volume 1, last non-zero volume 1.
C18_ReplacementResetsPlaybackState ==
    [][ BufferReplaced =>
            /\ ~isPlaying'
            /\ startOffsetRef' = 0
            /\ playbackRate' = DefaultRate
            /\ volume' = DefaultVolume
            /\ lastVolume' = DefaultVolume ]_vars

\* C18, amended: a step that replaces or clears the buffer leaves the
\* rate, the volume and the last non-zero volume as they were; when it
\* clears the buffer nothing plays any more and, on the full page, the
\* position and the duration shown are 0; when it sets a new buffer the
\* start offset is 0 and, on the full page, the position shown is 0 and
\* the duration is the buffer's.
C18_ReplacementKeepsSettings ==
    [][ BufferReplaced =>
            /\ UNCHANGED <<playbackRate, volume, lastVolume>>
            /\ audioBuffer' = NoBuffer =>
                  /\ ~isPlaying'
                  /\ ActiveMain(sources') = {}
                  /\ IsFull => (currentTime' = 0 /\ duration' = 0)
            /\ audioBuffer' # NoBuffer =>
                  /\ startOffsetRef' = 0
                  /\ IsFull => (currentTime' = 0 /\ duration' = audioBuffer'.duration)
      ]_vars

\* A paused buffer was cleared by a change of the input: rate, volume and
\* start offset are the ones the user had left.
C18_Witness ==
    /\ IsFull /\ mounted
    /\ audioBuffer = NoBuffer /\ requests = {}
    /\ ~isPlaying /\ currentTime = 0 /\ duration = 0
    /\ playbackRate = 2 /\ volume = 1 /\ lastVolume = 1
    /\ startOffsetRef > 0

\* A step of a generate or preview call: its request is sent or settles.
CallStep == requests' # requests

\* C19: in both pages there is no context at first, one is created only
\* by a step of a generate or preview call (with its gain node where the
\* page has one), once a context exists no other ever takes its place,
\* it is not closed while the component is mounted, and it is closed once
\* the component is torn down.
C19_OneContextClosedAtTeardown ==
    /\ audioContextRef = "null"
    /\ [][ audioContextRef = "null" /\ audioContextRef' # "null" =>
              /\ CallStep
              /\ audioContextRef' = "running"
              /\ IsFull => gainNodeRef' # "null" ]_vars
    /\ [][ audioContextRef # "null" => audioContextRef' # "null" ]_vars
    /\ [](mounted => audioContextRef # "closed")
    /\ [](~mounted => audioContextRef \in {"null", "closed"})

\* The largest difference between two buffers, sample by sample, in
\* steps of 1/32768.
WithinOneLSB(a, b) ==
    \A c \in DOMAIN a : \A i \in DOMAIN a[c] :
        a[c][i] - b[c][i] \in {0 - 1, 0, 1}

\* C20: for 16-bit PCM bytes of whole frames, the buffer decoded from the
\* data chunk of the file made from their buffer is within 1/32768 of
\* that first buffer in every sample, and decoding and encoding a second
\* time leaves the 16-bit samples of the data chunk as they were.
C20_RoundTripWithinOneLSBAndIdempotent ==
    /\ (codec.pass = 2 /\ codec.stage \in {"buffer", "file"}) =>
          WithinOneLSB(codec.buffer, codec.firstBuffer)
    /\ (codec.pass = 2 /\ codec.stage = "file") =>
          DataChunk(codec.file) = DataChunk(codec.firstFile)

\* The unsigned little-endian numbers a header holds at a byte offset.
Uint16At(bytes, offset) == bytes[offset + 1] + 256 * bytes[offset + 2]

Uint32At(bytes, offset) ==
    bytes[offset + 1] + 256 * bytes[offset + 2] + 65536 * bytes[offset + 3]
        + 16777216 * bytes[offset + 4]

\* The bytes of the samples of the buffer at hand.
DataLength == Len(codec.buffer[1]) * Len(codec.buffer) * 2

\* C21: the file either encoder makes of a buffer is 44 bytes and two
\* bytes for each sample of each channel; its header states the RIFF size
\* 36 + data length, format tag 1, the channel count, the sample rate,
\* the byte rate sampleRate * channelCount * 2, the block align
\* channelCount * 2, 16 bits per sample and the data length; and the two
\* encoders write the same bytes.
C21_EncodersWriteTheSameContainer ==
    codec.stage = "file" =>
        LET b == codec.file.bytes
            channelCount == Len(codec.buffer)
        IN /\ Len(b) = 44 + DataLength
           /\ Uint32At(b, 4) = 36 + DataLength
           /\ Uint16At(b, 20) = 1
           /\ Uint16At(b, 22) = channelCount
           /\ Uint32At(b, 24) = SampleRate
           /\ Uint32At(b, 28) = SampleRate * channelCount * 2
           /\ Uint16At(b, 32) = channelCount * 2
           /\ Uint16At(b, 34) = 16
           /\ Uint32At(b, 40) = DataLength
           /\ audioBufferToWav(codec.buffer).bytes = b
           /\ audioBufferToMp3(codec.buffer).bytes = b

\* A file labelled mpeg was made of one frame of two channels.
C21_Witness ==
    /\ codec.stage = "file" /\ codec.file.type = "audio/mpeg"
    /\ Len(codec.buffer) = 2 /\ Len(codec.buffer[1]) = 1
    /\ Len(codec.file.bytes) = 48
    /\ Uint16At(codec.file.bytes, 22) = 2

\* The bytes at hand do not make whole frames of the channel count.
PartialFrame == Len(codec.data) % (2 * codec.numChannels) # 0

\* C22: decoding bytes whose number is not a multiple of
\* 2 * channelCount fails with an error and gives no buffer, also when the
\* number is even and the last frame lacks a channel.
C22_DecodeRefusesPartialFrames ==
    (codec.stage \in {"buffer", "failed"} /\ PartialFrame) =>
        /\ codec.stage = "failed"
        /\ codec.error # "null"
        /\ codec.buffer = NoAudioBuffer

\* The signed little-endian 16-bit integer at a flat sample index
\* (counted from 0) of the bytes at hand.
SignedAt(index) ==
    LET u == codec.data[2 * index + 1] + 256 * codec.data[2 * index + 2]
    IN IF u >= 32768 THEN u - 65536 ELSE u

\* The buffer decoded from the bytes at hand has (byteLength / 2) /
\* channelCount frames, the sample of frame i, channel c is the integer
\* at flat index i * channelCount + c over 32768, and every sample lies
\* in [-1, 32767/32768].  (Samples are numerators over 32768.)
DecodedAsStored ==
    LET channelCount == codec.numChannels
        frameCount == (Len(codec.data) \div 2) \div channelCount
    IN /\ codec.stage = "buffer"
       /\ Len(codec.buffer) = channelCount
       /\ \A c \in 1..channelCount :
             /\ Len(codec.buffer[c]) = frameCount
             /\ \A i \in 1..frameCount :
                   /\ codec.buffer[c][i] = SignedAt((i - 1) * channelCount + (c - 1))
                   /\ codec.buffer[c][i] >= 0 - Scale
                   /\ codec.buffer[c][i] <= 32767
       /\ (codec.data = <<0, 0, 255, 127>> /\ channelCount = 1) =>
             codec.buffer = << <<0, 32767>> >>

\* C23: decoding bytes that make whole frames gives the buffer described
\* above.
C23_DecodeReadsInterleavedSamples ==
    (codec.stage \in {"buffer", "failed"} /\ ~PartialFrame) => DecodedAsStored

\* C23, amended: decoding bytes that make at least one whole frame and
\* no partial one gives the buffer described above; decoding no bytes at
\* all fails and gives no buffer.
C23_DecodeReadsInterleavedSamplesIfAny ==
    (codec.stage \in {"buffer", "failed"} /\ ~PartialFrame) =>
        IF codec.data # << >>
        THEN DecodedAsStored
        ELSE codec.stage = "failed" /\ codec.buffer = NoAudioBuffer

\* The known vector was decoded.
C23_Witness ==
    /\ codec.stage = "buffer" /\ codec.numChannels = 1
    /\ codec.data = <<0, 0, 255, 127>>
    /\ codec.buffer = << <<0, 32767>> >>

\* The response holds no audio data.
NoAudio(response) ==
    response.kind = "resolved" /\ response.data \in {"undefined", ""}

\* C24: generateSpeech returns a payload that is not empty or throws an
\* Error; a response without audio data is never returned but thrown, and
\* the Error thrown for it differs from the one thrown for any failure of
\* the remote call.
C24_PayloadOrDistinctError ==
    /\ codec.stage = "returned" =>
          /\ codec.outcome.value \notin {"undefined", ""}
          /\ codec.outcome.value = codec.response.data
    /\ codec.stage = "thrown" =>
          /\ codec.outcome.error.isError
          /\ codec.outcome.error.message # << >>
    /\ (codec.stage \in {"returned", "thrown"} /\ NoAudio(codec.response)) =>
          /\ codec.stage = "thrown"
          /\ \A r \in Responses :
                r.kind = "rejected" =>
                    generateSpeech(r).error # codec.outcome.error

\* The call has thrown for a response with an empty payload.
C24_Witness ==
    /\ codec.stage = "thrown" /\ codec.response.data = ""
    /\ codec.response.kind = "resolved"
    /\ codec.outcome.error.message =
          <<"Failed to generate speech: ", "No audio data was returned from the API.">>

\* text or selectedVoice changes in this step.
InputChanges == text' # text \/ selectedVoice' # selectedVoice

\* C25: a change of text or voice stops the main source and discards the
\* buffer (full page: the transport is not playing, position and duration
\* show 0); while there is no buffer no main source sounds, no source that
\* sounds plays a buffer made for another text or voice, and play()
\* changes nothing (the state of a page that is mounted).
C25_InputChangeDiscardsAudio ==
    /\ [][InputChanges =>
            /\ Playing("main")' = {}
            /\ audioSourceRef' = NoSource
            /\ audioBuffer' = NoBuffer
            /\ IsFull => (~isPlaying' /\ currentTime' = 0 /\ duration' = 0)]_vars
    /\ []((mounted /\ audioBuffer = NoBuffer) =>
            /\ Playing("main") = {}
            /\ audioSourceRef = NoSource
            /\ LET r == play(playNow, startOffsetRef)
               IN /\ r.sources = sources
                  /\ r.audioSourceRef = audioSourceRef
                  /\ r.isPlaying = isPlaying)
    /\ [](\A i \in Playing("main") :
            /\ mounted => audioBuffer # NoBuffer
            /\ sources[i].buffer.text = text
            /\ sources[i].buffer.voice = selectedVoice)

\* A buffer of the full page was played and then discarded by a change of
\* the inputs, the voice among them.
C25_Witness ==
    /\ IsFull /\ mounted /\ last = Other
    /\ audioBuffer = NoBuffer /\ selectedVoice = "Puck"
    /\ animationFrameRef # NoFrame /\ clock > 0
    /\ ~isPlaying /\ currentTime = 0 /\ duration = 0

\* A step of the mute button or of the volume slider; no other step
\* changes the volume.
VolumeStep ==
    \/ handleToggleMute
    \/ \E v \in Volumes : handleVolumeChange(v)
    \/ volume' # volume

\* C26: the mute button and the volume slider leave isPlaying, the main
\* source and what it plays, startOffsetRef, playbackStartTimeRef and the
\* buffer as they were, and once a gain node exists the gain holds the new
\* volume after the step.
C26_VolumeLeavesTransportAlone ==
    [][ VolumeStep =>
            /\ UNCHANGED <<isPlaying, audioSourceRef, sources, startOffsetRef,
                           playbackStartTimeRef, audioBuffer>>
            /\ (gainNodeRef' # "null" /\ audioContextRef' # "null") => gain' = volume' ]_vars

\* The transport was muted while the main source sounded, and it still does.
C26_Witness ==
    /\ last.op = "mute" /\ volume = 0 /\ gain = 0
    /\ isPlaying /\ Playing("main") # {}

\* source.onended of node id runs in this step.
EndHandlerRuns(id) ==
    /\ onended(id)
    /\ sources[id].onended.armed /\ audioContextRef # "null"

\* C27: source.onended runs only for the main source that audioSourceRef
\* holds, and only when that source has played to the end of its buffer
\* while the transport was playing; a main source that was stopped has no
\* handler left, so nothing writes startOffsetRef or currentTime for it
\* while the transport is not playing.
C27_EndHandlingOnlyOnNaturalEnd ==
    /\ [](\A i \in DOMAIN sources :
            (sources[i].kind = "main" /\ sources[i].state # "playing") =>
                ~sources[i].onended.armed)
    /\ [][ \A id \in DOMAIN sources :
              EndHandlerRuns(id) =>
                /\ sources[id].kind = "main" /\ id = audioSourceRef
                /\ Finished(sources[id])
                /\ isPlaying ]_vars
    /\ [][ (~isPlaying /\ (\E id \in DOMAIN sources : onended(id))) =>
              UNCHANGED <<startOffsetRef, currentTime, isPlaying>> ]_vars

\* The transport was paused in mid-buffer, a later tick has passed, and the
\* offset pause() stored is still there.
C27_Witness ==
    /\ IsFull /\ mounted /\ ~isPlaying /\ audioBuffer # NoBuffer
    /\ startOffsetRef > 0 /\ startOffsetRef < audioBuffer.duration
    /\ audioSourceRef = NoSource
    /\ clock > playbackStartTimeRef + 1

\* The position the transport computes for the running segment.
ComputedPosition ==
    startOffsetRef + Elapsed(clock, playbackStartTimeRef) * playbackRate

\* C28: while the transport plays and the main source has not reached the
\* end of its buffer, startOffsetRef + (now - playbackStartTimeRef) *
\* playbackRate is the position of the main source and does not exceed the
\* duration of the buffer.
C28_ComputedPositionIsActualPosition ==
    (/\ mounted /\ isPlaying
     /\ audioSourceRef \in DOMAIN sources
     /\ sources[audioSourceRef].state = "playing"
     /\ ~Finished(sources[audioSourceRef])) =>
        /\ ComputedPosition = sources[audioSourceRef].pos
        /\ ComputedPosition <= audioBuffer.duration

\* A step that stops the main source in mid-buffer and keeps the buffer:
\* pause(), or the start of a voice preview.
Interrupted ==
    /\ mounted' /\ isPlaying /\ ~isPlaying'
    /\ audioBuffer # NoBuffer /\ audioBuffer' = audioBuffer
    /\ audioSourceRef \in DOMAIN sources
    /\ sources[audioSourceRef].state = "playing"
    /\ ~Finished(sources[audioSourceRef])

\* The steps that interrupt leave in startOffsetRef the position the main
\* source had reached.
InterruptionKeepsPosition ==
    [][Interrupted => startOffsetRef' = sources[audioSourceRef].pos]_vars

\* While the transport is not playing the page shows startOffsetRef, or
\* the duration after a natural end.
DisplayedIsOffsetWhenIdle ==
    (mounted /\ IsFull /\ ~isPlaying /\ audioBuffer # NoBuffer) =>
        \/ currentTime = startOffsetRef
        \/ startOffsetRef = 0 /\ currentTime = audioBuffer.duration

\* C29: a pause() or the start of a voice preview in mid-buffer leaves
\* startOffsetRef, where the next play() starts the source, at the position
\* the main source had reached; and while the transport is not playing
\* currentTime equals startOffsetRef, but for the duration shown after a
\* natural end.
C29_InterruptionPreservesPosition ==
    InterruptionKeepsPosition /\ []DisplayedIsOffsetWhenIdle

\* C30: at most one call of generateSpeech, for a generation or for a
\* preview, awaits its result at any time, the loading flag of its kind is
\* up while the page is mounted, and neither text nor selectedVoice changes
\* while one is awaited.
C30_OneRequestAndFrozenInputs ==
    /\ [](Cardinality(requests) <= 1)
    /\ [](\A r \in requests :
            mounted => (IF r.kind = "preview" THEN isPreviewLoading ELSE isLoading))
    /\ [][requests # {} => UNCHANGED <<text, selectedVoice>>]_vars

\* A preview is awaited on a page that has a text and a buffer: generate,
\* preview and the inputs are all disabled.
C30_Witness ==
    /\ mounted /\ Cardinality(requests) = 1
    /\ \E r \in requests : r.kind = "preview"
    /\ trim(text) # << >> /\ audioBuffer # NoBuffer
    /\ ~GenerateEnabled /\ ~PreviewEnabled /\ ~InputsEnabled

\* The calls of one kind that await their result.
Awaited(kind) == {r \in requests : r.kind = kind}

\* A step in which a handler raises its loading flag.
FlagRises ==
    \/ ~isLoading /\ isLoading'
    \/ ~isPreviewLoading /\ isPreviewLoading'

\* C31: a loading flag that is up comes down again once the remote call
\* has settled, whatever the call answered (on a page that is still
\* mounted); a flag is up only while a call of its kind is awaited; a
\* request is sent only by the handler run that raises the flag, one per
\* run, and the step that settles a call sends no other.
C31_LoadingFlagFollowsTheRequest ==
    /\ isLoading ~> (~isLoading \/ ~mounted)
    /\ isPreviewLoading ~> (~isPreviewLoading \/ ~mounted)
    /\ [](mounted =>
            /\ isLoading => Awaited("generate") # {}
            /\ isPreviewLoading => Awaited("preview") # {})
    /\ [][ /\ Cardinality(requests' \ requests) <= 1
           /\ requests' \ requests # {} => (FlagRises /\ requests \subseteq requests')
           /\ requests \ requests' # {} =>
                 /\ requests' \subseteq requests
                 /\ \A r \in requests \ requests' :
                       mounted => (IF r.kind = "preview"
                                   THEN ~isPreviewLoading' ELSE ~isLoading') ]_vars

\* A generate call was rejected by the remote service and its flag is down.
C31_Witness ==
    /\ mounted /\ last.op = "failed"
    /\ error = "Failed to generate speech: rejected"
    /\ ~isLoading /\ ~isPreviewLoading /\ requests = {}

====
